---- MODULE Spec2Model ----
(***************************************************************************)
(* The document validation pipeline of the code-scanner language server     *)
(* (server/src/server.ts): the settings cache, the collector registry, the  *)
(* plugin resolver, validateTextDocument and the protocol handlers that      *)
(* drive them, on a single event loop whose only suspension point is the    *)
(* await of the settings promise.                                           *)
(*                                                                          *)
(* One TLA+ step is one macrotask of the event loop: a protocol             *)
(* notification handler, or the arrival of the client's answer to a         *)
(* workspace/configuration request, together with every promise             *)
(* continuation (microtask) that runs before the next macrotask.            *)
(***************************************************************************)
EXTENDS Integers, Sequences, FiniteSets, TLC

(***************************************************************************)
(* Bounds of the model.                                                     *)
(***************************************************************************)
\* number of client notifications (open, change, close, configuration) in a run
MaxEvents == 3

\* how many calls of the plugin resolver are followed
MaxCalls == 3

(***************************************************************************)
(* Value domains.                                                           *)
(***************************************************************************)
URIs == {"file:///a", "file:///b"}

\* server.ts:177-182
allLanguageIds == <<"javascript", "typescript", "javascriptreact", "typescriptreact">>

\* languageIds a client opens documents with: one without and one with the
\* typescript dialect, and one the server does not support
OpenLanguageIds == {"javascript", "typescriptreact", "plaintext"}

\* Document texts.  Each is given by the lengths of its lines (positionAt
\* needs nothing else) and by what the analysis engine finds in it.
Texts == {"clean", "viol", "crash"}

TextLines(text) ==
    CASE text = "clean" -> <<5, 3>>
      [] text = "viol"  -> <<12, 9>>
      [] text = "crash" -> <<8, 8, 8>>
      [] OTHER          -> <<0>>

Includes(seq, x) == \E i \in 1..Len(seq) : seq[i] = x

RECURSIVE SumSeq(_)
SumSeq(s) == IF s = <<>> THEN 0 ELSE Head(s) + SumSeq(Tail(s))

\* TextDocument.getText().length: the lines and the line breaks between them
TextLength(text) == SumSeq(TextLines(text)) + Len(TextLines(text)) - 1

\* offset of the first character of line i (1-based)
LineOffset(text, i) == SumSeq(SubSeq(TextLines(text), 1, i - 1)) + (i - 1)

\* TextDocument.positionAt: the offset is clamped to the text, the line is the
\* last one starting at or before it, the character what is left
PositionAt(text, offset) ==
    LET off  == IF offset < 0 THEN 0
                ELSE IF offset > TextLength(text) THEN TextLength(text) ELSE offset
        line == CHOOSE i \in 1..Len(TextLines(text)) :
                    /\ LineOffset(text, i) <= off
                    /\ \A j \in 1..Len(TextLines(text)) :
                           LineOffset(text, j) <= off => j <= i
    IN  [line |-> line - 1, character |-> off - LineOffset(text, line)]

(***************************************************************************)
(* Settings.                                                                *)
(***************************************************************************)
NoOptions == <<>>

\* part_000:150-171
defaultScannerConfig ==
    [scanPlugins |->
        << [plugin |-> "needTryCatch", options |-> << <<"level", 2>> >>],
           [plugin |-> "needHandlerInCatch", options |-> NoOptions],
           [plugin |-> "dangerousAndOperator", options |-> NoOptions],
           [plugin |-> "dangerousInitState", options |-> NoOptions],
           [plugin |-> "dangerousDefaultValue", options |-> NoOptions] >>]

\* An ISettings value as JavaScript sees it: an object whose scanPluginsConf
\* member may be missing, or (a malformed payload) a truthy value that is no
\* object, every member of which reads as undefined.
Object(max, hasConf, conf) ==
    [shape |-> "object", maxNumberOfProblems |-> max,
     scanPluginsConf |-> [present |-> hasConf, list |-> conf]]

Scalar == [shape |-> "scalar", maxNumberOfProblems |-> 0,
           scanPluginsConf |-> [present |-> FALSE, list |-> <<>>]]

\* server.ts:131-134
defaultSettings == Object(1000, TRUE, defaultScannerConfig.scanPlugins)

\* what the client configures: the contributed section without scanPluginsConf
\* (part_000:24-46), and one with its own plugin list
ClientSettings ==
    { Object(100, FALSE, <<>>),
      Object(100, TRUE, << [plugin |-> "dangerousAndOperator", options |-> NoOptions] >>) }

\* what a client may push besides: a section with an empty plugin list, and a
\* section that is no object
PushedValues == ClientSettings \cup {Object(100, TRUE, <<>>), Scalar}

\* payloads of workspace/didChangeConfiguration: change.settings is null, or an
\* object without the languageServerExample section, or one with it
NullPayload == [settings |-> "null", section |-> FALSE, value |-> Scalar]
NoSectionPayload == [settings |-> "object", section |-> FALSE, value |-> Scalar]
SectionPayload(v) == [settings |-> "object", section |-> TRUE, value |-> v]

Payloads == {NullPayload, NoSectionPayload}
              \cup {SectionPayload(v) : v \in PushedValues}

(***************************************************************************)
(* The analysis engine (package flawed-code-scanner), by its interface:     *)
(* setConfig stores the plugin configuration, the text, the path and the    *)
(* parser dialect; run parses the text and runs the plugins in order, each  *)
(* reporting into the collector attached to it, and may throw.              *)
(***************************************************************************)
LevelOf(options) ==
    IF \E i \in 1..Len(options) : options[i][1] = "level"
    THEN options[CHOOSE i \in 1..Len(options) : options[i][1] = "level"][2]
    ELSE 1

ScanError(range, level, tips, extra) ==
    [range |-> range, errorLevel |-> level, pluginTips |-> tips, extraMsg |-> extra]

\* the text "crash" parses only with the typescript dialect
ParseFails(code, babelParsePlugins) ==
    code = "crash" /\ ~Includes(babelParsePlugins, "typescript")

\* and when it parses, one plugin fails on it in the middle of the run
PluginThrows(p, code) == code = "crash" /\ p.plugin = "dangerousInitState"

PluginFindings(p, code) ==
    CASE p.plugin = "needTryCatch" /\ code \in {"viol", "crash"} ->
            << ScanError(<<10, 20>>, LevelOf(p.options), "needTryCatch", "") >>
      [] p.plugin = "dangerousAndOperator" /\ code = "viol" ->
            << ScanError(<<2, 5>>, LevelOf(p.options), "dangerousAndOperator", "use ?.") >>
      [] OTHER -> <<>>

\* ErrorCollector: the ScanErrors reported since the last clearAll
AddErrors(cm, id, errs) ==
    [u \in DOMAIN cm |->
        IF cm[u].present /\ cm[u].id = id
        THEN [cm[u] EXCEPT !.errors = cm[u].errors \o errs]
        ELSE cm[u]]

RECURSIVE RunPlugins(_, _, _)
RunPlugins(plugins, code, cm) ==
    IF plugins = <<>> THEN [collectorMap |-> cm, threw |-> FALSE]
    ELSE IF PluginThrows(Head(plugins), code) THEN [collectorMap |-> cm, threw |-> TRUE]
    ELSE RunPlugins(Tail(plugins), code,
                    AddErrors(cm, Head(plugins).collector, PluginFindings(Head(plugins), code)))

\* Scanner.run with the configuration of the last setConfig
ScannerRun(config, cm) ==
    IF ParseFails(config.code, config.babelParsePlugins)
    THEN [collectorMap |-> cm, threw |-> TRUE]
    ELSE RunPlugins(config.scanPluginsConf, config.code, cm)

\* Scanner.genScanPluginsConf: every plugin gets the collector attached
RECURSIVE GenScanPluginsConf(_, _)
GenScanPluginsConf(conf, collectorId) ==
    IF conf = <<>> THEN <<>>
    ELSE << [plugin |-> Head(conf).plugin, options |-> Head(conf).options,
             collector |-> collectorId] >>
         \o GenScanPluginsConf(Tail(conf), collectorId)

NoScannerConfig ==
    [scanPluginsConf |-> <<>>, code |-> "", filePath |-> "", babelParsePlugins |-> <<>>]

(***************************************************************************)
(* The collector registry (server.ts:54-68).                                *)
(***************************************************************************)
NoCollector == [present |-> FALSE, id |-> 0, errors |-> <<>>]

\* new ErrorCollector(): an instance no other entry of the map holds
NewCollector(cm) ==
    [present |-> TRUE, id |-> Cardinality({u \in DOMAIN cm : cm[u].present}) + 1,
     errors |-> <<>>]

\* getCollectorByUrl: the map after the call; the collector returned is its
\* entry for uri
\* a registry that makes a new collector on every call
GetCollectorByUrlAlwaysNew(cm, uri) == [cm EXCEPT ![uri] = NewCollector(cm)]

GetCollectorByUrl(cm, uri) ==
    IF cm[uri].present THEN cm ELSE [cm EXCEPT ![uri] = NewCollector(cm)]

\* clearAll that forgets to empty the collector
ClearAllKeeps(c) == c

\* ErrorCollector.clearAll
ClearAll(c) == [c EXCEPT !.errors = <<>>]

(***************************************************************************)
(* The plugin resolver (server.ts:184-197).                                 *)
(***************************************************************************)
\* a resolver that forgets the jsx dialect of typescriptreact
GetPluginByLanguageIdNoJsx(languageId) ==
    CASE languageId = "javascript"      -> <<>>
      [] languageId = "typescript"      -> <<"typescript">>
      [] languageId = "javascriptreact" -> <<"jsx">>
      [] languageId = "typescriptreact" -> <<"typescript">>
      [] OTHER                          -> <<>>

GetPluginByLanguageId(languageId) ==
    CASE languageId = "javascript"      -> <<>>
      [] languageId = "typescript"      -> <<"typescript">>
      [] languageId = "javascriptreact" -> <<"jsx">>
      [] languageId = "typescriptreact" -> <<"jsx", "typescript">>
      [] OTHER                          -> <<>>

\* a validate without the languageId check
IsSupportedAlways(languageId) == TRUE

\* server.ts:211
IsSupported(languageId) == Includes(allLanguageIds, languageId)

(***************************************************************************)
(* The diagnostic mapper (server.ts:240-263).                               *)
(***************************************************************************)
LevelName(level) ==
    CASE level = 1 -> "Error"
      [] level = 2 -> "Warning"
      [] level = 3 -> "Information"
      [] level = 4 -> "Hint"
      [] OTHER     -> "undefined"

ToDiagnostic(error, text, uri, relatedCapability) ==
    LET range == [start |-> PositionAt(text, error.range[1]),
                  end   |-> PositionAt(text, error.range[2])]
    IN  [severity |-> error.errorLevel,
         range    |-> range,
         message  |-> <<LevelName(error.errorLevel), ": ", error.pluginTips>>,
         source   |-> "code-scanner",
         relatedInformation |->
            IF relatedCapability /\ error.extraMsg # ""
            THEN << [location |-> [uri |-> uri, range |-> range],
                     message  |-> error.extraMsg] >>
            ELSE <<>>]

\* a validator that always runs the default plugins
EffectiveConfDefault(settings) == defaultScannerConfig.scanPlugins

\* settings.scanPluginsConf ?? defaultScannerConfig.scanPlugins
EffectiveConf(settings) ==
    IF settings.scanPluginsConf.present THEN settings.scanPluginsConf.list
    ELSE defaultScannerConfig.scanPlugins

(***************************************************************************)
(* State.                                                                   *)
(***************************************************************************)
VARIABLES
    initialized,                \* the initialize request has been handled
    hasConfigurationCapability, \* server.ts:71
    hasWorkspaceFolderCapability,               \* server.ts:72
    hasDiagnosticRelatedInformationCapability,  \* server.ts:73
    docs,              \* the TextDocument of every URI (documents, server.ts:44)
    openOrder,         \* the URIs of documents.all(), in the order they were opened
    collectorMap,      \* server.ts:54
    globalSettings,    \* server.ts:135
    documentSettings,  \* server.ts:138: URI -> the promise cached for it
    requests,          \* workspace/configuration requests the client has not answered
    runs,              \* validateTextDocument calls suspended at the await, oldest first
    scannerConfig,     \* what the shared scanner (server.ts:49) was last configured with
    nEvents,           \* notifications handled so far
    lastEvent,         \* the macrotask that led to this state
    runLog,            \* the validation runs that ended in that macrotask, in order
    issuedNow,         \* the URIs a configuration request was issued for in that macrotask
    fetchedSinceChange, \* the URIs a request was issued for since the last configuration change
    published,         \* per URI, the last publishDiagnostics sent and what it was computed from
    scannerServer,     \* a ScannerServer (part_000:173-246) and the collectorMap of its module
    resolverLog        \* the calls of getPluginByLanguageId made on their own, with their results

vars == <<initialized, hasConfigurationCapability, hasWorkspaceFolderCapability,
          hasDiagnosticRelatedInformationCapability, docs, openOrder, collectorMap,
          globalSettings, documentSettings, requests, runs, scannerConfig,
          nEvents, lastEvent, runLog, issuedNow, fetchedSinceChange,
          published, scannerServer, resolverLog>>

\* the state of server.ts
serverVars == <<initialized, hasConfigurationCapability, hasWorkspaceFolderCapability,
                hasDiagnosticRelatedInformationCapability, docs, openOrder, collectorMap,
                globalSettings, documentSettings, requests, runs, scannerConfig,
                nEvents, lastEvent, runLog, issuedNow, fetchedSinceChange,
                published>>

\* nothing was published for the URI yet
NoPublication ==
    [has |-> FALSE, text |-> "", languageId |-> "", settings |-> Scalar,
     diagnostics |-> <<>>, fresh |-> FALSE]

ClosedDoc == [open |-> FALSE, languageId |-> "", text |-> ""]

NoPromise == [state |-> "none", id |-> 0, value |-> Scalar]
Pending(id) == [state |-> "pending", id |-> id, value |-> Scalar]
Resolved(v) == [state |-> "resolved", id |-> 0, value |-> v]
Rejected == [state |-> "rejected", id |-> 0, value |-> Scalar]

\* the capabilities a client announces: configuration pull, workspace folders,
\* related information
ClientCapabilities ==
    { [configuration |-> FALSE, workspaceFolders |-> FALSE, relatedInformation |-> FALSE],
      [configuration |-> TRUE,  workspaceFolders |-> TRUE,  relatedInformation |-> TRUE] }

Event(type, uri) ==
    [type |-> type, uri |-> uri, threw |-> FALSE, payload |-> NoSectionPayload,
     rejected |-> FALSE]

\* before new ScannerServer(): the module of the class is loaded
\* (part_000:110), the fields have their initializers (part_000:174-176)
NoScannerServer ==
    [constructed |-> FALSE, allowRelatedInformationArg |-> FALSE,
     _connection |-> "null", _allowRelatedInformation |-> TRUE,
     collectorMap |-> [u \in URIs |-> NoCollector],
     scannerConfig |-> NoScannerConfig, log |-> <<>>]

Init ==
    /\ initialized = FALSE
    /\ hasConfigurationCapability = FALSE
    /\ hasWorkspaceFolderCapability = FALSE
    /\ hasDiagnosticRelatedInformationCapability = FALSE
    /\ docs = [u \in URIs |-> ClosedDoc]
    /\ openOrder = <<>>
    /\ collectorMap = [u \in URIs |-> NoCollector]
    /\ globalSettings = defaultSettings
    /\ documentSettings = [u \in URIs |-> NoPromise]
    /\ requests = {}
    /\ runs = <<>>
    /\ scannerConfig = NoScannerConfig
    /\ nEvents = 0
    /\ lastEvent = Event("start", "")
    /\ runLog = <<>>
    /\ issuedNow = <<>>
    /\ fetchedSinceChange = {}
    /\ published = [u \in URIs |-> NoPublication]
    /\ scannerServer = NoScannerServer
    /\ resolverLog = <<>>

(***************************************************************************)
(* The settings cache (server.ts:162-175).                                  *)
(***************************************************************************)
FreshId(reqs) ==
    CHOOSE i \in 1..(Cardinality(reqs) + 1) : \A r \in reqs : r.id # i

\* getDocumentSettings that asks the client on every call
GetDocumentSettingsNoMemo(ds, reqs, resource, global) ==
    IF ~hasConfigurationCapability
    THEN [promise |-> Resolved(global), ds |-> ds, reqs |-> reqs, issued |-> <<>>]
    ELSE LET id == FreshId(reqs)
         IN  [promise |-> Pending(id),
              ds      |-> [ds EXCEPT ![resource] = Pending(id)],
              reqs    |-> reqs \cup {[id |-> id, uri |-> resource]},
              issued  |-> <<resource>>]

\* getDocumentSettings that asks the client whatever the session negotiated
GetDocumentSettingsAlwaysPull(ds, reqs, resource, global) ==
    IF ds[resource].state = "none"
    THEN LET id == FreshId(reqs)
         IN  [promise |-> Pending(id),
              ds      |-> [ds EXCEPT ![resource] = Pending(id)],
              reqs    |-> reqs \cup {[id |-> id, uri |-> resource]},
              issued  |-> <<resource>>]
    ELSE [promise |-> ds[resource], ds |-> ds, reqs |-> reqs, issued |-> <<>>]

\* getDocumentSettings: the promise returned, the cache and the outstanding
\* requests after the call, and the URIs a request was sent for
GetDocumentSettings(ds, reqs, resource, global) ==
    IF ~hasConfigurationCapability
    THEN [promise |-> Resolved(global), ds |-> ds, reqs |-> reqs, issued |-> <<>>]
    ELSE IF ds[resource].state = "none"
    THEN LET id == FreshId(reqs)
         IN  [promise |-> Pending(id),
              ds      |-> [ds EXCEPT ![resource] = Pending(id)],
              reqs    |-> reqs \cup {[id |-> id, uri |-> resource]},
              issued  |-> <<resource>>]
    ELSE [promise |-> ds[resource], ds |-> ds, reqs |-> reqs, issued |-> <<>>]

(***************************************************************************)
(* validateTextDocument (server.ts:210-269).  The call runs up to the await *)
(* of the settings promise (ValidateStart); what follows the await          *)
(* (ValidateResume) runs as a microtask once the promise is settled.  Both  *)
(* work on a record m of the state the macrotask has built so far:          *)
(* cm (collectorMap), sc (scannerConfig), ds (documentSettings), reqs,      *)
(* runs, ready (runs whose promise is already settled), log, issued.        *)
(***************************************************************************)
RunRecord(uri, doc, outcome, closed) ==
    [uri |-> uri, languageId |-> doc.languageId, text |-> doc.text,
     outcome |-> outcome, closedWhileSuspended |-> closed,
     settings |-> Scalar, collectorAtRun |-> <<>>, engineRan |-> FALSE,
     engineThrew |-> FALSE, ranWith |-> NoScannerConfig,
     readback |-> <<>>, diagnostics |-> <<>>,
     \* the run awaited a request issued before the last configuration change;
     \* what had been published for the URI when the run published
     stale |-> FALSE, prev |-> NoPublication]

\* a setConfig that leaves the scanner as it was configured before
SetConfigKeeps(sc, config) == sc

\* scanner.setConfig(config) on the one scanner of the module (server.ts:49)
SetConfig(sc, config) == config

\* scanner.run() without the try/catch around it
RunEngineNoCatch(config, cm) ==
    LET r == ScannerRun(config, cm)
    IN  [collectorMap |-> r.collectorMap, threw |-> r.threw, propagates |-> r.threw]

\* try { scanner.run() } catch (e) { console.error(...) }
RunEngine(config, cm) ==
    LET r == ScannerRun(config, cm)
    IN  [collectorMap |-> r.collectorMap, threw |-> r.threw, propagates |-> FALSE]

ValidateStart(m, uri, d, global) ==
    IF ~IsSupported(d[uri].languageId)
    THEN [m EXCEPT !.log = Append(@, RunRecord(uri, d[uri], "skipped", FALSE))]
    ELSE LET gs  == GetDocumentSettings(m.ds, m.reqs, uri, global)
             run == [uri |-> uri, live |-> TRUE, languageId |-> d[uri].languageId,
                     text |-> "", req |-> gs.promise.id, old |-> FALSE]
         IN  IF gs.promise.state = "pending"
             THEN [m EXCEPT !.ds = gs.ds, !.reqs = gs.reqs,
                            !.issued = @ \o gs.issued,
                            !.runs = Append(@, run)]
             ELSE [m EXCEPT !.ds = gs.ds, !.reqs = gs.reqs,
                            !.issued = @ \o gs.issued,
                            !.ready = Append(@, [run |-> run, promise |-> gs.promise])]

\* the TextDocument object a run holds: the store's, which later changes
\* update in place, until the document is closed
DocOf(run, d) ==
    IF run.live THEN d[run.uri]
    ELSE [open |-> FALSE, languageId |-> run.languageId, text |-> run.text]

ValidateResume(m, run, promise, d) ==
    LET doc == DocOf(run, d)
        uri == run.uri
    IN  IF promise.state = "rejected"
        THEN \* the await throws: the call ends in a rejected promise
             [m EXCEPT !.log = Append(@, RunRecord(uri, doc, "rejected", ~run.live))]
        ELSE
        LET settings   == promise.value
            cm1        == GetCollectorByUrl(m.cm, uri)
            cm2        == [cm1 EXCEPT ![uri] = ClearAll(cm1[uri])]
            config     == [scanPluginsConf   |->
                               GenScanPluginsConf(EffectiveConf(settings), cm2[uri].id),
                           code              |-> doc.text,
                           filePath          |-> uri,
                           babelParsePlugins |-> GetPluginByLanguageId(doc.languageId)]
            sc1        == SetConfig(m.sc, config)
            \* scanner.run() reads what the scanner is configured with
            r          == RunEngine(sc1, cm2)
            errors     == r.collectorMap[uri].errors
            diagnostics == [i \in 1..Len(errors) |->
                               ToDiagnostic(errors[i], doc.text, uri,
                                            hasDiagnosticRelatedInformationCapability)]
            rec        == [RunRecord(uri, doc, "published", ~run.live) EXCEPT
                               !.settings = settings,
                               !.collectorAtRun = cm2[uri].errors,
                               !.engineRan = TRUE,
                               !.engineThrew = r.threw,
                               !.ranWith = sc1,
                               !.stale = run.old,
                               !.prev = m.pub[uri]]
            \* connection.sendDiagnostics({ uri, diagnostics }) (server.ts:266)
            sent       == [has |-> TRUE, text |-> doc.text, languageId |-> doc.languageId,
                           settings |-> settings, diagnostics |-> diagnostics,
                           fresh |-> ~run.old]
        IN  IF r.propagates
            THEN [m EXCEPT !.cm = r.collectorMap, !.sc = sc1,
                           !.log = Append(@, [rec EXCEPT !.outcome = "threw"])]
            ELSE [m EXCEPT !.cm = r.collectorMap, !.sc = sc1, !.pub[uri] = sent,
                           !.log = Append(@, [rec EXCEPT !.readback = errors,
                                                         !.diagnostics = diagnostics])]

RECURSIVE StartAll(_, _, _, _)
StartAll(m, uris, d, global) ==
    IF uris = <<>> THEN m
    ELSE StartAll(ValidateStart(m, Head(uris), d, global), Tail(uris), d, global)

RECURSIVE ResumeAll(_, _, _)
ResumeAll(m, ready, d) ==
    IF ready = <<>> THEN m
    ELSE ResumeAll(ValidateResume(m, Head(ready).run, Head(ready).promise, d),
                   Tail(ready), d)

\* the state a macrotask starts from
Machine ==
    [cm |-> collectorMap, sc |-> scannerConfig, ds |-> documentSettings,
     reqs |-> requests, runs |-> runs, ready |-> <<>>, log |-> <<>>, issued |-> <<>>,
     pub |-> published]

\* the microtasks that follow the handler: every run whose promise is settled
Drain(m, d) == ResumeAll([m EXCEPT !.ready = <<>>], m.ready, d)

Count(seq, x) == Cardinality({i \in 1..Len(seq) : seq[i] = x})

\* the state a macrotask leaves
Commit(m, changed) ==
    /\ collectorMap' = m.cm
    /\ scannerConfig' = m.sc
    /\ documentSettings' = m.ds
    /\ requests' = m.reqs
    /\ runs' = m.runs
    /\ runLog' = m.log
    /\ issuedNow' = m.issued
    /\ published' = m.pub
    /\ fetchedSinceChange' =
          (IF changed THEN {} ELSE fetchedSinceChange) \cup {u \in URIs : Count(m.issued, u) > 0}

(***************************************************************************)
(* The handlers.                                                            *)
(***************************************************************************)
\* connection.onInitialize (server.ts:75-108)
OnInitialize(caps) ==
    /\ ~initialized
    /\ initialized' = TRUE
    /\ hasConfigurationCapability' = caps.configuration
    /\ hasWorkspaceFolderCapability' = caps.workspaceFolders
    /\ hasDiagnosticRelatedInformationCapability' = caps.relatedInformation
    /\ lastEvent' = Event("initialize", "")
    /\ runLog' = <<>>
    /\ issuedNow' = <<>>
    /\ UNCHANGED <<docs, openOrder, collectorMap, globalSettings, documentSettings,
                   requests, runs, scannerConfig, nEvents, fetchedSinceChange,
                   published, scannerServer, resolverLog>>

Flags == <<initialized, hasConfigurationCapability, hasWorkspaceFolderCapability,
           hasDiagnosticRelatedInformationCapability>>

\* textDocument/didOpen: the store creates the document, then
\* documents.onDidChangeContent (server.ts:206-208)
DidOpen(uri, languageId, text) ==
    /\ initialized /\ nEvents < MaxEvents
    /\ ~docs[uri].open
    /\ docs' = [docs EXCEPT ![uri] = [open |-> TRUE, languageId |-> languageId, text |-> text]]
    /\ openOrder' = Append(openOrder, uri)
    /\ \E m \in {Drain(ValidateStart(Machine, uri, docs', globalSettings), docs')} :
          Commit(m, FALSE)
    /\ nEvents' = nEvents + 1
    /\ lastEvent' = Event("open", uri)
    /\ UNCHANGED <<Flags, globalSettings, scannerServer, resolverLog>>

\* textDocument/didChange: the store updates the document in place, then
\* documents.onDidChangeContent (server.ts:206-208)
DidChange(uri, text) ==
    /\ initialized /\ nEvents < MaxEvents
    /\ docs[uri].open
    /\ docs' = [docs EXCEPT ![uri].text = text]
    /\ \E m \in {Drain(ValidateStart(Machine, uri, docs', globalSettings), docs')} :
          Commit(m, FALSE)
    /\ nEvents' = nEvents + 1
    /\ lastEvent' = Event("change", uri)
    /\ UNCHANGED <<Flags, openOrder, globalSettings, scannerServer, resolverLog>>

\* a suspended run keeps the TextDocument of the closed document as it was
Detach(run, uri) ==
    IF run.uri = uri /\ run.live
    THEN [run EXCEPT !.live = FALSE, !.text = docs[uri].text]
    ELSE run

\* an onDidClose that leaves the cache alone
OnDidCloseKeeps(ds, cm, uri) == [ds |-> ds, cm |-> cm]

\* documents.onDidClose (server.ts:200-202)
OnDidClose(ds, cm, uri) ==
    [ds |-> [ds EXCEPT ![uri] = NoPromise], cm |-> cm]

\* textDocument/didClose: the store drops the document, then the handler
DidClose(uri) ==
    /\ initialized /\ nEvents < MaxEvents
    /\ docs[uri].open
    /\ docs' = [docs EXCEPT ![uri] = ClosedDoc]
    /\ openOrder' = SelectSeq(openOrder, LAMBDA u : u # uri)
    /\ LET c == OnDidClose(documentSettings, collectorMap, uri)
       IN  Commit([Machine EXCEPT !.ds = c.ds, !.cm = c.cm,
                                  !.runs = [i \in 1..Len(runs) |-> Detach(runs[i], uri)]],
                  FALSE)
    /\ nEvents' = nEvents + 1
    /\ lastEvent' = Event("close", uri)
    /\ UNCHANGED <<Flags, globalSettings, scannerServer, resolverLog>>

\* change.settings.languageServerExample || defaultSettings (server.ts:146-148)
PushedSettings(payload) ==
    IF payload.section THEN payload.value ELSE defaultSettings

\* collectorMap.forEach(c => c.clearAll()) (server.ts:152-154)
ClearAllCollectors(cm) ==
    [u \in DOMAIN cm |-> IF cm[u].present THEN ClearAll(cm[u]) ELSE cm[u]]

\* connection.onDidChangeConfiguration (server.ts:140-159)
DidChangeConfiguration(payload) ==
    /\ initialized /\ nEvents < MaxEvents
    \* a client that is asked for the configuration sends no settings along
    /\ hasConfigurationCapability => payload = NullPayload
    /\ nEvents' = nEvents + 1
    /\ UNCHANGED <<scannerServer, resolverLog>>
    /\ IF ~hasConfigurationCapability /\ payload.settings = "null"
       THEN \* reading a member of null throws: the handler ends at line 147
            /\ lastEvent' = [Event("configuration", "") EXCEPT
                                 !.threw = TRUE, !.payload = payload]
            /\ runLog' = <<>>
            /\ issuedNow' = <<>>
            /\ UNCHANGED <<Flags, docs, openOrder, collectorMap, globalSettings,
                           documentSettings, requests, runs, scannerConfig,
                           fetchedSinceChange, published>>
       ELSE /\ globalSettings' = IF hasConfigurationCapability THEN globalSettings
                                 ELSE PushedSettings(payload)
            /\ LET m0 == [Machine EXCEPT
                              !.ds = IF hasConfigurationCapability
                                     THEN [u \in URIs |-> NoPromise] ELSE @,
                              !.cm = ClearAllCollectors(@),
                              \* from here on the runs still suspended await a
                              \* request issued before this event
                              !.runs = [i \in 1..Len(@) |-> [@[i] EXCEPT !.old = TRUE]],
                              !.pub = [u \in URIs |-> [@[u] EXCEPT !.fresh = FALSE]]]
               IN  \E m \in {Drain(StartAll(m0, openOrder, docs, globalSettings'), docs)} :
                      Commit(m, hasConfigurationCapability)
            /\ lastEvent' = [Event("configuration", "") EXCEPT !.payload = payload]
            /\ UNCHANGED <<Flags, docs, openOrder>>

\* the client answers a workspace/configuration request, or the request fails:
\* the promise is settled and the runs awaiting it go on, oldest first
ConfigurationResponse(req, promise) ==
    /\ req \in requests
    /\ LET waiting == SelectSeq(runs, LAMBDA r : r.req = req.id)
           m0 == [Machine EXCEPT
                      !.reqs = @ \ {req},
                      !.ds = [u \in URIs |->
                                 IF @[u].state = "pending" /\ @[u].id = req.id
                                 THEN promise ELSE @[u]],
                      !.runs = SelectSeq(@, LAMBDA r : r.req # req.id),
                      !.ready = [i \in 1..Len(waiting) |->
                                    [run |-> waiting[i], promise |-> promise]]]
       IN  \E m \in {Drain(m0, docs)} : Commit(m, FALSE)
    /\ lastEvent' = [Event("response", req.uri) EXCEPT
                         !.rejected = (promise.state = "rejected")]
    /\ UNCHANGED <<Flags, docs, openOrder, globalSettings, nEvents, scannerServer, resolverLog>>

Next ==
    \/ \E caps \in ClientCapabilities : OnInitialize(caps)
    \/ \E u \in URIs, l \in OpenLanguageIds, t \in Texts : DidOpen(u, l, t)
    \/ \E u \in URIs, t \in Texts : DidChange(u, t)
    \/ \E u \in URIs : DidClose(u)
    \/ \E p \in Payloads : DidChangeConfiguration(p)
    \/ \E req \in requests :
          \E promise \in {Resolved(v) : v \in ClientSettings} \cup {Rejected} :
              ConfigurationResponse(req, promise)

Spec == Init /\ [][Next]_vars

(***************************************************************************)
(* class ScannerServer (part_000:173-246), and the registry of its module   *)
(* (part_000:110-123).  server.ts imports the class and never creates one;  *)
(* it is driven here by a caller that constructs it, binds a connection and *)
(* calls validate on documents and settings of its choice.                  *)
(***************************************************************************)
\* the settings a caller passes to validate
ValidateSettings == (PushedValues \ {Scalar}) \cup {defaultSettings}

\* the languageIds of the documents a caller passes to validate
ValidateLanguageIds ==
    {allLanguageIds[i] : i \in 1..Len(allLanguageIds)} \cup {"plaintext"}

\* constructor (allowRelatedInformation?: boolean) (part_000:178-180): makes
\* the scanner and assigns nothing else
Construct(ss, allowRelatedInformation) ==
    [ss EXCEPT !.constructed = TRUE,
               !.allowRelatedInformationArg = allowRelatedInformation]

\* bindConnection (part_000:182-184)
BindConnection(ss) == [ss EXCEPT !._connection = "bound"]

\* validate (part_000:186-244)
Validate(ss, uri, languageId, text, settings) ==
    LET doc == [open |-> TRUE, languageId |-> languageId, text |-> text]
    IN  IF ~Includes(allLanguageIds, languageId)
        THEN [ss EXCEPT !.log = << RunRecord(uri, doc, "skipped", FALSE) >>]
        ELSE
        LET cm1    == GetCollectorByUrl(ss.collectorMap, uri)
            cm2    == [cm1 EXCEPT ![uri] = ClearAll(cm1[uri])]
            config == [scanPluginsConf   |->
                           GenScanPluginsConf(EffectiveConf(settings), cm2[uri].id),
                       code              |-> text,
                       filePath          |-> uri,
                       babelParsePlugins |-> GetPluginByLanguageId(languageId)]
            sc1    == SetConfig(ss.scannerConfig, config)
            r      == RunEngine(sc1, cm2)
            errors == r.collectorMap[uri].errors
            diagnostics == [i \in 1..Len(errors) |->
                               ToDiagnostic(errors[i], text, uri,
                                            ss._allowRelatedInformation)]
            rec    == [RunRecord(uri, doc, "published", FALSE) EXCEPT
                           !.settings = settings,
                           !.collectorAtRun = cm2[uri].errors]
        IN  IF ss._connection = "null"
            THEN \* this._connection.console.log of null throws (part_000:194)
                 [ss EXCEPT !.collectorMap = cm2,
                            !.log = << [rec EXCEPT !.outcome = "threw"] >>]
            ELSE [ss EXCEPT !.collectorMap = r.collectorMap,
                            !.scannerConfig = sc1,
                            !.log = << [rec EXCEPT !.engineRan = TRUE,
                                                   !.engineThrew = r.threw,
                                                   !.ranWith = sc1,
                                                   !.readback = errors,
                                                   !.diagnostics = diagnostics] >>]

NewScannerServer(allowRelatedInformation) ==
    /\ ~scannerServer.constructed
    /\ scannerServer' = Construct(scannerServer, allowRelatedInformation)
    /\ UNCHANGED <<serverVars, resolverLog>>

CallBindConnection ==
    /\ scannerServer.constructed
    /\ scannerServer._connection = "null"
    /\ scannerServer' = BindConnection(scannerServer)
    /\ UNCHANGED <<serverVars, resolverLog>>

CallValidate(uri, languageId, text, settings) ==
    /\ scannerServer.constructed
    /\ scannerServer' = Validate(scannerServer, uri, languageId, text, settings)
    /\ UNCHANGED <<serverVars, resolverLog>>

NextScannerServer ==
    \/ \E a \in BOOLEAN : NewScannerServer(a)
    \/ CallBindConnection
    \/ \E u \in URIs, l \in ValidateLanguageIds, t \in Texts, st \in ValidateSettings :
          CallValidate(u, l, t, st)

SpecScannerServer == Init /\ [][NextScannerServer]_vars

(***************************************************************************)
(* getPluginByLanguageId (server.ts:184-197, part_000:132-145) called on    *)
(* its own, on languageIds of the caller's choice.                          *)
(***************************************************************************)
\* the languageIds the resolver is called with: the four of the switch, and
\* three it has no case for
ResolverInputs ==
    {"javascript", "typescript", "javascriptreact", "typescriptreact",
     "plaintext", "", "TypeScript"}

CallGetPluginByLanguageId(languageId) ==
    /\ Len(resolverLog) < MaxCalls
    /\ resolverLog' = Append(resolverLog,
                             [languageId |-> languageId,
                              plugins    |-> GetPluginByLanguageId(languageId)])
    /\ UNCHANGED <<serverVars, scannerServer>>

NextResolver == \E l \in ResolverInputs : CallGetPluginByLanguageId(l)

SpecResolver == Init /\ [][NextResolver]_vars

(***************************************************************************)
(* Properties.                                                              *)
(***************************************************************************)
Runs == {runLog[i] : i \in 1..Len(runLog)}

\* the languageIds the specification names as supported
SupportedLanguageIds == {"javascript", "typescript", "javascriptreact", "typescriptreact"}

\* the run of the last macrotask that was the last one to touch uri's collector
IsLastRunOf(i, uri) ==
    /\ runLog[i].uri = uri
    /\ \A j \in (i + 1)..Len(runLog) : runLog[j].uri # uri

\* C1: every validation run on a document with a supported languageId sends one
\* publishDiagnostics for the document's URI; none ends without publishing.
C1_SupportedRunPublishes ==
    \A r \in Runs : r.languageId \in SupportedLanguageIds => r.outcome = "published"

\* C2: a validation run on a document whose languageId is not supported never
\* runs the engine and never publishes, and a change of such a document leaves
\* the collectors, the settings cache, the outstanding requests, the suspended
\* runs and the scanner as they were.
C2_UnsupportedIsNoOp ==
    /\ [](\A r \in Runs : r.languageId \notin SupportedLanguageIds =>
              /\ r.outcome = "skipped"
              /\ ~r.engineRan
              /\ r.diagnostics = <<>>)
    /\ [][(/\ lastEvent'.type \in {"open", "change"}
           /\ docs'[lastEvent'.uri].languageId \notin SupportedLanguageIds)
          => /\ UNCHANGED <<collectorMap, documentSettings, requests, runs, scannerConfig>>
             /\ issuedNow' = <<>>]_vars

C2_Witness ==
    /\ lastEvent.type = "change"
    /\ \E r \in Runs : r.outcome = "skipped" /\ r.uri = lastEvent.uri
    /\ \E u \in URIs : collectorMap[u].present /\ collectorMap[u].errors # <<>>

\* C3: in every validation run that reaches the engine the document's collector
\* is empty when the engine starts, and the number of diagnostics published is
\* the number of ScanErrors read back from the collector, which is what the
\* collector holds when the run ends.
C3_CollectorFreshAndCounted ==
    \A i \in 1..Len(runLog) :
        runLog[i].engineRan =>
            /\ runLog[i].collectorAtRun = <<>>
            /\ runLog[i].outcome = "published" =>
                  /\ Len(runLog[i].diagnostics) = Len(runLog[i].readback)
                  /\ IsLastRunOf(i, runLog[i].uri) =>
                        runLog[i].readback = collectorMap[runLog[i].uri].errors

C3_Witness ==
    /\ lastEvent.type = "change"
    /\ \E r \in Runs : /\ r.uri = lastEvent.uri
                       /\ r.outcome = "published"
                       /\ Len(r.diagnostics) = 1
                       /\ r.text = "crash"

\* C4: a validation run that was suspended on the settings fetch when its
\* document was closed never publishes diagnostics afterwards.
C4_ClosedRunDoesNotPublish ==
    \A r \in Runs : r.closedWhileSuspended => r.outcome # "published"

\* C5: after didClose of a URI neither the settings cache nor the collector
\* registry has an entry for it.
C5_CloseDropsSettingsAndCollector ==
    lastEvent.type = "close" =>
        /\ documentSettings[lastEvent.uri].state = "none"
        /\ ~collectorMap[lastEvent.uri].present

\* C6 as stated: in pull mode at most one configuration request is issued for
\* a URI between two configuration-changed events.
C6_OneRequestBetweenChanges ==
    [][\A u \in URIs :
          (Count(issuedNow', u) > 0 /\ lastEvent'.type # "configuration")
              => u \notin fetchedSinceChange]_vars

\* C6 as amended: in pull mode a request is issued for a URI only when the
\* cache has no entry for it, at most one per macrotask, and its pending promise
\* is what the cache then holds; a get for a URI that has an entry (pending or
\* settled) issues no request and leaves the entry as it is; an entry is dropped
\* only by a configuration-changed event, which drops every entry (those left
\* after it belong to requests issued by its own re-validation), and by the
\* close of its document.
C6_OneRequestPerCacheEntry ==
    [][\A u \in URIs :
          /\ Count(issuedNow', u) <= 1
          /\ Count(issuedNow', u) = 1 =>
                /\ hasConfigurationCapability
                /\ lastEvent'.type \in {"open", "change"} => documentSettings[u].state = "none"
                /\ documentSettings'[u].state = "pending"
                /\ [id |-> documentSettings'[u].id, uri |-> u] \in requests' \ requests
          /\ (/\ lastEvent'.type \in {"open", "change"}
              /\ documentSettings[u].state # "none")
                => /\ Count(issuedNow', u) = 0
                   /\ documentSettings'[u] = documentSettings[u]
          /\ (/\ lastEvent'.type = "configuration"
              /\ hasConfigurationCapability
              /\ documentSettings'[u].state # "none")
                => Count(issuedNow', u) = 1
          /\ (documentSettings[u].state # "none" /\ documentSettings'[u].state = "none")
                => \/ lastEvent'.type = "configuration"
                   \/ lastEvent' = Event("close", u)]_vars

\* two runs of one document await the one request issued for it
C6_Witness ==
    /\ lastEvent.type = "change"
    /\ issuedNow = <<>>
    /\ documentSettings[lastEvent.uri].state = "pending"
    /\ Cardinality({i \in 1..Len(runs) :
                       runs[i].req = documentSettings[lastEvent.uri].id}) = 2

\* C7: in push mode a configuration-changed event makes the record of its
\* payload the global settings, and the compiled-in default when the payload
\* is absent or malformed; the handler completes.
WellFormed(payload) == payload.section /\ payload.value.shape = "object"

C7_PushedSettingsOrDefault ==
    (lastEvent.type = "configuration" /\ ~hasConfigurationCapability) =>
        /\ ~lastEvent.threw
        /\ globalSettings = IF WellFormed(lastEvent.payload)
                            THEN lastEvent.payload.value ELSE defaultSettings

\* C8: after a configuration-changed event no cache entry from before it is
\* left, every collector that no new run has filled is empty, and every open
\* supported document has been published again or has a run in flight.
C8_ChangeRevalidatesAll ==
    lastEvent.type = "configuration" =>
        \A u \in URIs :
              /\ documentSettings[u].state # "none" => Count(issuedNow, u) = 1
              /\ (\A r \in Runs : r.uri # u) => collectorMap[u].errors = <<>>
              /\ (docs[u].open /\ docs[u].languageId \in SupportedLanguageIds) =>
                    \/ \E r \in Runs : r.uri = u /\ r.outcome = "published"
                    \/ \E i \in 1..Len(runs) : runs[i].uri = u /\ runs[i].live

\* C9: a failure of the engine does not leave validate: the run goes on and
\* publishes the diagnostics of what the collector held at the failure, which
\* is not empty when a plugin had reported before the engine failed.
C9_EngineFailureStillPublishes ==
    \A r \in Runs :
        r.engineThrew =>
            /\ r.outcome = "published"
            /\ Len(r.diagnostics) = Len(r.readback)
            /\ (/\ Includes(GetPluginByLanguageId(r.languageId), "typescript")
                /\ ~r.settings.scanPluginsConf.present)
                  => r.readback # <<>>

C9_Witness ==
    \E r \in Runs : r.engineThrew /\ r.outcome = "published" /\ Len(r.diagnostics) = 1

\* C10: when the configuration fetch for a URI fails, the runs awaiting it
\* validate with the compiled-in default settings and publish, and the failed
\* fetch is not what later validations of the URI get.
C10_FailedFetchFallsBack ==
    /\ (lastEvent.type = "response" /\ lastEvent.rejected) =>
           \A r \in Runs : r.outcome = "published" /\ r.settings = defaultSettings
    /\ \A u \in URIs : documentSettings[u].state # "rejected"

\* the validate calls of the ScannerServer that ended in the last step
ValidateRuns == {scannerServer.log[i] : i \in 1..Len(scannerServer.log)}

\* C11: a diagnostic carries relatedInformation only if the ScanError has
\* extraMsg and the capability the validator was given is true; with the
\* capability false the field is absent, with it true and extraMsg present
\* there is exactly one entry, naming the diagnostic's URI and range.  Stated
\* for the ScannerServer, whose capability is its constructor's argument.
C11_RelatedInformationGated ==
    \A r \in ValidateRuns : r.outcome = "published" =>
        \A i \in 1..Len(r.diagnostics) :
            LET d == r.diagnostics[i]
                e == r.readback[i]
                capability == scannerServer.allowRelatedInformationArg
            IN  IF capability /\ e.extraMsg # ""
                THEN /\ Len(d.relatedInformation) = 1
                     /\ d.relatedInformation[1].location.uri = r.uri
                     /\ d.relatedInformation[1].location.range = d.range
                ELSE d.relatedInformation = <<>>

\* the five default plugins, as the specification lists them
FiveDefaultPlugins ==
    << [plugin |-> "needTryCatch", options |-> << <<"level", 2>> >>],
       [plugin |-> "needHandlerInCatch", options |-> <<>>],
       [plugin |-> "dangerousAndOperator", options |-> <<>>],
       [plugin |-> "dangerousInitState", options |-> <<>>],
       [plugin |-> "dangerousDefaultValue", options |-> <<>>] >>

\* the plugins of a configuration without the collector attached to them
PluginsOf(config) ==
    [i \in 1..Len(config.scanPluginsConf) |->
        [plugin  |-> config.scanPluginsConf[i].plugin,
         options |-> config.scanPluginsConf[i].options]]

\* every plugin instance of the configuration reports to uri's collector
AttachedToCollectorOf(config, uri) ==
    /\ collectorMap[uri].present
    /\ \A i \in 1..Len(config.scanPluginsConf) :
           config.scanPluginsConf[i].collector = collectorMap[uri].id

\* C12 as claimed: the engine gets the settings' scanPluginsConf when that is
\* present and non-empty, otherwise the five default plugins in order; every
\* plugin instance is attached to the document's own collector.
C12_ConfOrDefaultWhenEmpty ==
    \A r \in Runs : r.engineRan =>
        /\ PluginsOf(r.ranWith) =
              IF r.settings.scanPluginsConf.present
                 /\ r.settings.scanPluginsConf.list # <<>>
              THEN r.settings.scanPluginsConf.list
              ELSE FiveDefaultPlugins
        /\ AttachedToCollectorOf(r.ranWith, r.uri)

\* C12, amended: the engine gets the settings' scanPluginsConf when that is
\* present, empty or not, and the five default plugins in order only when the
\* settings have none; every plugin instance is attached to the document's
\* own collector.
C12_ConfOrDefaultWhenAbsent ==
    \A r \in Runs : r.engineRan =>
        /\ PluginsOf(r.ranWith) =
              IF r.settings.scanPluginsConf.present
              THEN r.settings.scanPluginsConf.list
              ELSE FiveDefaultPlugins
        /\ AttachedToCollectorOf(r.ranWith, r.uri)

\* a run whose settings carry an empty plugin list ran the engine with it
C12_Witness ==
    /\ \E r \in Runs : /\ r.engineRan
                        /\ r.settings.scanPluginsConf.present
                        /\ r.settings.scanPluginsConf.list = <<>>
                        /\ r.ranWith.scanPluginsConf = <<>>
                        /\ r.outcome = "published"

\* no validation run is suspended and no configuration request is outstanding
Quiescent == runs = <<>> /\ requests = {}

\* C13: every open or content-change event on a supported document starts a
\* validation run, and once all runs in flight have completed, the diagnostics
\* last published for each open supported URI are those computed from the
\* document's current text.
C13_SettlesOnCurrentText ==
    /\ (lastEvent.type \in {"open", "change"}
         /\ docs[lastEvent.uri].languageId \in SupportedLanguageIds)
        => \/ \E r \in Runs : r.uri = lastEvent.uri
           \/ \E i \in 1..Len(runs) : runs[i].uri = lastEvent.uri /\ runs[i].live
    /\ Quiescent =>
          \A u \in URIs :
              (docs[u].open /\ docs[u].languageId \in SupportedLanguageIds)
              => /\ published[u].has
                 /\ published[u].text = docs[u].text
                 /\ published[u].languageId = docs[u].languageId

\* C14: idempotence: two consecutive validation runs on the same document
\* with unchanged text and unchanged settings publish identical diagnostic
\* arrays.
C14_Idempotent ==
    \A r \in Runs :
        (/\ r.outcome = "published"
         /\ r.prev.has
         /\ r.prev.text = r.text
         /\ r.prev.languageId = r.languageId
         /\ r.prev.settings = r.settings)
        => r.diagnostics = r.prev.diagnostics

\* a second run on unchanged text and settings published findings once more
C14_Witness ==
    \E r \in Runs :
        /\ r.outcome = "published"
        /\ r.prev.has
        /\ r.prev.text = r.text
        /\ r.prev.languageId = r.languageId
        /\ r.prev.settings = r.settings
        /\ Len(r.diagnostics) = 2
        /\ lastEvent.type = "change"

\* C15: in pull mode, a run that awaited a configuration request issued
\* before a configuration-changed event never publishes for a URI after a run
\* that used settings fetched after the event.
C15_StaleRunNeverPublishesLast ==
    hasConfigurationCapability =>
        \A r \in Runs :
            (r.outcome = "published" /\ r.stale) => ~r.prev.fresh

\* C16: nothing is interleaved between a run's collector clear and its
\* publication: the shared scanner runs with the configuration the same run
\* set (this run's text, URI and plugins attached to this URI's collector),
\* the collector is still empty when the engine starts, and the diagnostics
\* published are those of the URI's collector, placed in the run's text.
C16_RunIsNotInterleaved ==
    /\ \A r \in Runs : r.engineRan =>
          /\ r.ranWith.code = r.text
          /\ r.ranWith.filePath = r.uri
          /\ AttachedToCollectorOf(r.ranWith, r.uri)
          /\ r.collectorAtRun = <<>>
          /\ r.outcome = "published" =>
                /\ Len(r.diagnostics) = Len(r.readback)
                /\ \A i \in 1..Len(r.readback) :
                      /\ r.diagnostics[i].severity = r.readback[i].errorLevel
                      /\ r.diagnostics[i].range.start =
                            PositionAt(r.text, r.readback[i].range[1])
                      /\ r.diagnostics[i].range.end =
                            PositionAt(r.text, r.readback[i].range[2])
    /\ \A i \in 1..Len(runLog) :
          (runLog[i].engineRan /\ IsLastRunOf(i, runLog[i].uri))
          => collectorMap[runLog[i].uri].errors = runLog[i].readback
    /\ (Len(runLog) > 0 /\ runLog[Len(runLog)].engineRan)
          => scannerConfig = runLog[Len(runLog)].ranWith

\* two runs on different documents ended in the same macrotask, one after the
\* other, and each published findings of its own text
C16_Witness ==
    /\ Len(runLog) = 2
    /\ runLog[1].uri # runLog[2].uri
    /\ runLog[1].outcome = "published" /\ runLog[2].outcome = "published"
    /\ runLog[1].text = "viol" /\ runLog[2].text = "clean"
    /\ Len(runLog[1].diagnostics) > 0 /\ runLog[2].diagnostics = <<>>

\* C17: the registry holds one collector per URI: two URIs never have the
\* same collector, and the collector of a URI, once made, is the one every
\* later call returns, whatever events follow.
C17_OneCollectorPerUri ==
    /\ [](\A u, v \in URIs :
             (u # v /\ collectorMap[u].present /\ collectorMap[v].present)
             => collectorMap[u].id # collectorMap[v].id)
    /\ [][\A u \in URIs :
             collectorMap[u].present
             => /\ collectorMap'[u].present
                /\ collectorMap'[u].id = collectorMap[u].id]_vars

\* both URIs have a collector and a run has just used the one an earlier
\* run on the same URI made
C17_Witness ==
    /\ \A u \in URIs : collectorMap[u].present
    /\ \E r \in Runs : r.engineRan /\ r.prev.has
    /\ lastEvent.type \in {"open", "response"}

\* C18: the three capability flags are set by initialize and never change
\* afterwards, and one settings source serves every get and every
\* configuration change: in a pull session no settings are stored globally
\* and every run's settings are a client's answer; in a push session nothing
\* is requested or cached and every run uses the global settings.
C18_FlagsFixedOneMode ==
    /\ [][initialized =>
             UNCHANGED <<hasConfigurationCapability, hasWorkspaceFolderCapability,
                         hasDiagnosticRelatedInformationCapability>>]_vars
    /\ [](IF hasConfigurationCapability
           THEN /\ globalSettings = defaultSettings
                /\ \A r \in Runs : r.engineRan => r.settings \in ClientSettings
           ELSE /\ requests = {} /\ runs = <<>> /\ issuedNow = <<>>
                /\ \A u \in URIs : documentSettings[u].state = "none"
                /\ \A r \in Runs : r.engineRan => r.settings = globalSettings)

\* a push session that has taken pushed settings and validated with them
C18_Witness ==
    /\ initialized /\ ~hasConfigurationCapability
    /\ lastEvent.type = "configuration" /\ ~lastEvent.threw
    /\ globalSettings # defaultSettings
    /\ \E r \in Runs : r.engineRan /\ r.settings = globalSettings

\* C19: every key of the settings cache is the URI of an open document.
C19_CacheKeysAreOpen ==
    \A u \in URIs : documentSettings[u].state # "none" => docs[u].open

\* a document was closed while a run on it was suspended: its entry is gone,
\* the other document's entry stays
C19_Witness ==
    /\ lastEvent.type = "close"
    /\ \E i \in 1..Len(runs) : runs[i].uri = lastEvent.uri /\ ~runs[i].live
    /\ documentSettings[lastEvent.uri].state = "none"
    /\ \E u \in URIs : documentSettings[u].state # "none"

\* the dialect tags the specification gives for a languageId
ExpectedDialects(languageId) ==
    IF languageId = "typescript" THEN {"typescript"}
    ELSE IF languageId = "javascriptreact" THEN {"jsx"}
    ELSE IF languageId = "typescriptreact" THEN {"jsx", "typescript"}
    ELSE {}

\* C20: the plugin resolver maps javascript to no dialect tags, typescript to
\* {typescript}, javascriptreact to {jsx}, typescriptreact to {jsx,
\* typescript} and every other languageId to the empty set; the same
\* languageId always gives the same tags, and a call changes no state.
C20_ResolverIsPureAndTotal ==
    /\ [](\A i \in 1..Len(resolverLog) :
             LET c == resolverLog[i]
             IN  /\ {c.plugins[k] : k \in 1..Len(c.plugins)} = ExpectedDialects(c.languageId)
                 /\ Len(c.plugins) = Cardinality(ExpectedDialects(c.languageId))
                 /\ \A j \in 1..Len(resolverLog) :
                       resolverLog[j].languageId = c.languageId
                       => resolverLog[j].plugins = c.plugins)
    /\ [][resolverLog' # resolverLog => UNCHANGED <<serverVars, scannerServer>>]_vars

\* the resolver was called for typescriptreact, twice, and for a languageId
\* it has no case for
C20_Witness ==
    /\ Len(resolverLog) = 3
    /\ resolverLog[1].languageId = "typescriptreact"
    /\ resolverLog[2].languageId = "TypeScript"
    /\ resolverLog[3].languageId = "typescriptreact"
    /\ Len(resolverLog[3].plugins) = 2

====
